---- MODULE Spec2Model ----
(***************************************************************************)
(* restaurant-tracker: update_google_sheet (src/app.py).                   *)
(*                                                                         *)
(* The sheet is a sequence of rows, each row a sequence of five strings    *)
(* (name, address, Google Maps URL, date added, notes).  Sheet rows are    *)
(* numbered from 1 as in the A1 notation the code writes; the indices the  *)
(* code keeps in row_indices / batch_indices are the 0-based Python list   *)
(* indices, so that list index x is sheet row x + 1.                       *)
(*                                                                         *)
(* A pass is the sequence of steps of update_google_sheet.  Passes are     *)
(* numbered; a second pass starts when the first has returned.             *)
(***************************************************************************)
EXTENDS Integers, Sequences, FiniteSets, TLC

VARIABLES
    store,          \* the worksheet: sequence of rows
    batch_size,     \* the batch_size argument of the passes
    runs,           \* how many passes are run in succession
    pc,             \* pc[p]: position of pass p in update_google_sheet
    data,           \* data[p]: the list returned by get_all_values
    row_indices,    \* row_indices[p]: 0-based indices of the rows to update
    i,              \* i[p]: loop variable of the batch loop
    j,              \* j[p]: number of rows of batch_data the row loop has taken
    updated_data,   \* updated_data[p]: triples collected for the current batch
    pre,            \* pre[p]: the worksheet right after header normalisation
    inserts,        \* inserts[p]: number of sheet.insert_row calls issued
    resolved_from,  \* resolved_from[p]: index each entry of updated_data came from
    lookups,        \* lookups[p]: the 0-based indices looked up so far, in order
    writes,         \* writes[p]: the sheet.update calls issued so far, in order
    after,          \* after[p]: the worksheet when pass p returned or raised
    log,            \* log[p]: the logging calls of pass p, in order
    returned,       \* returned[p]: the value update_google_sheet returned
    concurrent,     \* TRUE when the passes are started independently of each other
    tpc,            \* position of the request in trigger_update ("off": no request)
    env_ok,         \* whether initialize_clients succeeds on the environment
    spreadsheets,   \* the names client.open finds
    request,        \* the JSON body of the POST /update request
    opened,         \* the name trigger_update passed to client.open
    response        \* the outcome of trigger_update

\* the variables of trigger_update
web == <<tpc, env_ok, spreadsheets, request, opened, response>>

vars == <<store, batch_size, runs, pc, data, row_indices, i, j, updated_data,
          pre, inserts, resolved_from, lookups, writes, after,
          log, returned, concurrent, web>>

-----------------------------------------------------------------------------
(* Bounds *)

MaxRows == 4
MaxBatch == 3
MaxRuns == 2
MaxWebRows == 2
MaxConcRows == 2

Passes == 1..MaxRuns

-----------------------------------------------------------------------------
(* Values *)

headers == <<"Restaurant Name", "Address", "Google Maps URL", "Date Added", "Notes">>

\* the default of --sheet and of the sheet_name field of the request
DefaultSheetName == "Maine Restaurants"

\* the default of the batch_size parameter
DefaultBatchSize == 100

NoAddress == "No address found"
NoMapsUrl == "No Google Maps URL found"

\* datetime.now().strftime("%Y-%m-%d"), the clock being fixed during the model's runs
Today == "2026-11-06"

MapsUrl(place_id) == "https://www.google.com/maps/place/?q=place_id:" \o place_id

\* Python truthiness of a cell value / of an optional value
Truthy(v) == v # "" /\ v # "None"

-----------------------------------------------------------------------------
(* The lookup service: gmaps.places(query=restaurant).  A response either  *)
(* raises or carries the list "results"; a result carries an optional      *)
(* formatted_address and an optional place_id ("None" when the key is      *)
(* absent) next to the keys every place result has (name, geometry, ...),  *)
(* so a result is always a truthy dict.  The service is deterministic: the *)
(* response is a function of the query.                                    *)

Result(formatted_address, place_id) ==
    [formatted_address |-> formatted_address, place_id |-> place_id]

places(query) ==
    CASE query = "Joe's Diner"   -> [raises |-> "None", results |-> <<Result("1 Main St", "abc123")>>]
      [] query = "Pier 9"        -> [raises |-> "None", results |-> <<Result("9 Pier Rd", "None")>>]
      [] query = "Cafe X"        -> [raises |-> "None", results |-> <<Result("None", "xyz789")>>]
      [] query = "Unknown Place" -> [raises |-> "None", results |-> <<>>]
      [] query = "Quota"         -> [raises |-> "ApiError", results |-> <<>>]
      [] OTHER                   -> [raises |-> "Exception", results |-> <<>>]

-----------------------------------------------------------------------------
(* Tables the passes start from *)

\* the data rows a table is built from: complete and incomplete records, with
\* every field both empty and filled, and every response of the lookup service
RowSpace ==
    { <<"Cafe X",        "123 St",   "http://maps/x", "2023-01-01", "">>,
      <<"Joe's Diner",   "5 Elm St", "http://maps/j", "",           "good">>,
      <<"Joe's Diner",   "",         "",              "",           "">>,
      <<"Pier 9",        "5 Elm St", "",              "2023-01-01", "good">>,
      <<"Cafe X",        "",         "http://maps/x", "",           "good">>,
      <<"Unknown Place", "",         "",              "",           "">>,
      <<"Quota",         "",         "",              "2023-01-01", "good">>,
      <<"Boom",          "",         "http://maps/b", "",           "">> }

SeqsUpTo(S, n) == UNION { [1..m -> S] : m \in 0..n }

\* a worksheet: the data rows, below the header row or without one; every
\* row is five cells wide (get_all_values pads the rows to one width)
TablesUpTo(n) ==
    { dataRows : dataRows \in SeqsUpTo(RowSpace, n) }
    \cup { <<headers>> \o dataRows : dataRows \in SeqsUpTo(RowSpace, n) }

Tables == TablesUpTo(MaxRows)

-----------------------------------------------------------------------------
(* Pure parts of update_google_sheet *)

Min(a, b) == IF a < b THEN a ELSE b

\* row[1:4]
Slice14(row) == SubSeq(row, 2, 4)

\* the scan with "and" in place of "or"
ScanMissing_BothEmpty(d) ==
    SelectSeq([x \in 1..Len(d) |-> x - 1],
              LAMBDA index : ~Truthy(d[index + 1][2]) /\ ~Truthy(d[index + 1][3]))

\* [index for index, row in enumerate(data) if not row[1] or not row[2]]
ScanMissing(d) ==
    SelectSeq([x \in 1..Len(d) |-> x - 1],
              LAMBDA index : ~Truthy(d[index + 1][2]) \/ ~Truthy(d[index + 1][3]))

\* the slice row_indices[i : batch_size]
BatchSlice_NoOffset(indices, start, size) ==
    SubSeq(indices, start + 1, Min(size, Len(indices)))

\* row_indices[i : i + batch_size]
BatchSlice(indices, start, size) ==
    SubSeq(indices, start + 1, Min(start + size, Len(indices)))

\* [data[index] for index in batch_indices]
BatchData(d, indices) == [k \in 1..Len(indices) |-> d[indices[k] + 1]]

\* the entry of a matched row stamped with the current date in any case
NewEntry_AlwaysStamp(row, first_result) ==
    LET new_address ==
            IF first_result.formatted_address # "None"
            THEN first_result.formatted_address ELSE NoAddress
        place_id == first_result.place_id
        new_google_maps_url ==
            IF Truthy(place_id) THEN MapsUrl(place_id) ELSE NoMapsUrl
    IN  <<new_address, new_google_maps_url, Today>>

\* the entry the try block appends to updated_data for one row
NewEntry(row, first_result) ==
    LET date_added == row[4]
        new_address ==
            IF first_result.formatted_address # "None"
            THEN first_result.formatted_address ELSE NoAddress
        place_id == first_result.place_id
        new_google_maps_url ==
            IF Truthy(place_id) THEN MapsUrl(place_id) ELSE NoMapsUrl
    IN  <<new_address, new_google_maps_url,
          IF ~Truthy(date_added) THEN Today ELSE date_added>>

NeedsLookup(row) == ~Truthy(row[2]) \/ ~Truthy(row[3])

ResolveRow(row) ==
    IF NeedsLookup(row)
    THEN LET place_result == places(row[1])
         IN  IF place_result.raises # "None"
             THEN Slice14(row)
             ELSE IF Len(place_result.results) > 0
                  THEN NewEntry(row, place_result.results[1])
                  ELSE Slice14(row)
    ELSE Slice14(row)

\* range(0, stop, step) at the value x: x is produced / the range is exhausted;
\* range raises ValueError when step is 0
RangeHas(x, stop, step) == (step > 0 /\ x < stop) \/ (step < 0 /\ x > stop)

RangeDone(x, stop, step) == (step > 0 /\ x >= stop) \/ (step < 0 /\ x <= stop)

\* logging.info("Found %d rows to update", total_rows)
FoundRowsRecord(n) == [level |-> "info", msg |-> "Found %d rows to update", args |-> <<n>>]

\* the except clauses with only the first of them logging
ErrorRecords_ApiOnly(row) ==
    IF NeedsLookup(row) /\ places(row[1]).raises = "ApiError"
    THEN <<[level |-> "error", msg |-> "Google Maps API Error: %s", args |-> <<"ApiError">>]>>
    ELSE <<>>

\* the logging.error call of the except clause a row ends in, if any
ErrorRecords(row) ==
    IF NeedsLookup(row) /\ places(row[1]).raises = "ApiError"
    THEN <<[level |-> "error", msg |-> "Google Maps API Error: %s", args |-> <<"ApiError">>]>>
    ELSE IF NeedsLookup(row) /\ places(row[1]).raises # "None"
         THEN <<[level |-> "error", msg |-> "Failed to update row: %s",
                 args |-> <<places(row[1]).raises>>]>>
         ELSE <<>>

\* the write sent to the range A{start_row}:C{end_row}
SheetUpdate_FromA(sheet, start_row, end_row, values) ==
    [r \in 1..Len(sheet) |->
        IF r >= start_row /\ r <= end_row /\ r - start_row + 1 <= Len(values)
        THEN [c \in 1..Len(sheet[r]) |->
                IF c >= 1 /\ c <= 3 /\ c <= Len(values[r - start_row + 1])
                THEN values[r - start_row + 1][c]
                ELSE sheet[r][c]]
        ELSE sheet[r]]

\* sheet.update("B{start_row}:D{end_row}", values): the values are laid into
\* the range from its top-left cell, one list per sheet row; cells of the
\* range that the values do not reach keep their content
SheetUpdate(sheet, start_row, end_row, values) ==
    [r \in 1..Len(sheet) |->
        IF r >= start_row /\ r <= end_row /\ r - start_row + 1 <= Len(values)
        THEN [c \in 1..Len(sheet[r]) |->
                IF c >= 2 /\ c <= 4 /\ c - 1 <= Len(values[r - start_row + 1])
                THEN values[r - start_row + 1][c - 1]
                ELSE sheet[r][c]]
        ELSE sheet[r]]

\* sheet.insert_row(values, 1)
InsertRow(sheet, values) == <<values>> \o sheet

-----------------------------------------------------------------------------
(* State of one pass *)

total_rows(p) == Len(row_indices[p])
batch_indices(p) == BatchSlice(row_indices[p], i[p], batch_size)
batch_data(p) == BatchData(data[p], batch_indices(p))
\* the first list index taken for the first sheet row
start_row_ZeroBased(p) == batch_indices(p)[1]

start_row(p) == batch_indices(p)[1] + 1
end_row(p) == batch_indices(p)[Len(batch_indices(p))] + 1

-----------------------------------------------------------------------------
(* trigger_update: POST /update *)

\* the JSON bodies: an object without sheet_name, or with sheet_name empty,
\* null, the default name or another name
Requests ==
    { [present |-> FALSE, sheet_name |-> ""] }
    \cup { [present |-> TRUE, sheet_name |-> n] :
              n \in {"", "None", DefaultSheetName, "Portland Bars"} }

\* the spreadsheets the service account can open
SpreadsheetSets == { {}, {DefaultSheetName}, {"Portland Bars"}, {DefaultSheetName, "Portland Bars"} }

\* request.json.get("sheet_name", "Maine Restaurants") without the default
SheetNameOf_NoDefault(body) ==
    IF body.present THEN body.sheet_name ELSE "None"

\* request.json.get("sheet_name", "Maine Restaurants")
SheetNameOf(body) ==
    IF body.present THEN body.sheet_name ELSE DefaultSheetName

NoResponse == [kind |-> "none", status |-> 0, body |-> ""]

\* return jsonify(...), status
Json(status, body) == [kind |-> "json", status |-> status, body |-> body]

\* an exception leaving trigger_update
Unhandled == [kind |-> "exception", status |-> 0, body |-> ""]

\* the state before a pass has started; the request variables at rest
PassInit ==
    /\ data = [p \in Passes |-> <<>>]
    /\ row_indices = [p \in Passes |-> <<>>]
    /\ i = [p \in Passes |-> 0]
    /\ j = [p \in Passes |-> 0]
    /\ updated_data = [p \in Passes |-> <<>>]
    /\ pre = [p \in Passes |-> <<>>]
    /\ inserts = [p \in Passes |-> 0]
    /\ resolved_from = [p \in Passes |-> <<>>]
    /\ lookups = [p \in Passes |-> <<>>]
    /\ writes = [p \in Passes |-> <<>>]
    /\ after = [p \in Passes |-> <<>>]
    /\ log = [p \in Passes |-> <<>>]
    /\ returned = [p \in Passes |-> [value |-> "not returned"]]

\* main(): the pass is called directly, no request is involved
NoRequest ==
    /\ tpc = "off"
    /\ env_ok = TRUE
    /\ spreadsheets = {DefaultSheetName}
    /\ request = [present |-> FALSE, sheet_name |-> ""]
    /\ opened = DefaultSheetName
    /\ response = NoResponse

InitRuns(n) ==
    /\ store \in Tables
    /\ batch_size \in 1..MaxBatch
    /\ runs = n
    /\ concurrent = FALSE
    /\ pc = [p \in Passes |-> "start"]
    /\ PassInit
    /\ NoRequest

Init == InitRuns(1)

\* batch_size arguments that are no batch size
InvalidBatchSizes == {0, -1}

\* one pass called with any batch_size argument
InitAnyBatch ==
    /\ store \in Tables
    /\ batch_size \in InvalidBatchSizes \cup 1..MaxBatch
    /\ runs = 1
    /\ concurrent = FALSE
    /\ pc = [p \in Passes |-> "start"]
    /\ PassInit
    /\ NoRequest

InitTwice == InitRuns(MaxRuns)

\* two passes on the same worksheet, started independently of each other (two
\* requests served by two threads, or two processes): nothing in
\* trigger_update, main or update_google_sheet takes a lock
InitConc ==
    /\ store \in TablesUpTo(MaxConcRows)
    /\ batch_size \in 1..MaxBatch
    /\ runs = 2
    /\ concurrent = TRUE
    /\ pc = [p \in Passes |-> "start"]
    /\ PassInit
    /\ NoRequest

\* a request arrives: the pass waits for trigger_update to call it with the
\* default batch_size
InitTrigger ==
    /\ store \in TablesUpTo(MaxWebRows)
    /\ batch_size = DefaultBatchSize
    /\ runs = 1
    /\ concurrent = FALSE
    /\ pc = [p \in Passes |-> "wait"]
    /\ PassInit
    /\ tpc = "received"
    /\ env_ok \in BOOLEAN
    /\ spreadsheets \in SpreadsheetSets
    /\ request \in Requests
    /\ opened = "None"
    /\ response = NoResponse

\* line 132: initialize_clients raises, outside of any try statement
InitializeClientsRaises ==
    /\ tpc = "received"
    /\ ~env_ok
    /\ response' = Unhandled
    /\ tpc' = "responded"
    /\ UNCHANGED <<env_ok, spreadsheets, request, opened>>
    /\ UNCHANGED <<store, batch_size, runs, pc, data, row_indices, i, j, updated_data,
                   pre, inserts, resolved_from, lookups, writes, after,
                   log, returned, concurrent>>

\* lines 134-136: the sheet name is falsy
RejectBlank ==
    /\ tpc = "received"
    /\ env_ok
    /\ ~Truthy(SheetNameOf(request))
    /\ response' = Json(400, "Sheet name is required")
    /\ tpc' = "responded"
    /\ UNCHANGED <<env_ok, spreadsheets, request, opened>>
    /\ UNCHANGED <<store, batch_size, runs, pc, data, row_indices, i, j, updated_data,
                   pre, inserts, resolved_from, lookups, writes, after,
                   log, returned, concurrent>>

\* lines 139-140: the spreadsheet is opened and update_google_sheet called
OpenSheet ==
    /\ tpc = "received"
    /\ env_ok
    /\ Truthy(SheetNameOf(request))
    /\ SheetNameOf(request) \in spreadsheets
    /\ opened' = SheetNameOf(request)
    /\ pc' = [pc EXCEPT ![1] = "start"]
    /\ tpc' = "running"
    /\ UNCHANGED <<env_ok, spreadsheets, request, response>>
    /\ UNCHANGED <<store, batch_size, runs, data, row_indices, i, j, updated_data,
                   pre, inserts, resolved_from, lookups, writes, after,
                   log, returned, concurrent>>

\* lines 139, 142-144: client.open raises SpreadsheetNotFound
SpreadsheetNotFound ==
    /\ tpc = "received"
    /\ env_ok
    /\ Truthy(SheetNameOf(request))
    /\ SheetNameOf(request) \notin spreadsheets
    /\ opened' = SheetNameOf(request)
    /\ response' = Json(404, "Spreadsheet not found")
    /\ tpc' = "responded"
    /\ UNCHANGED <<env_ok, spreadsheets, request>>
    /\ UNCHANGED <<store, batch_size, runs, pc, data, row_indices, i, j, updated_data,
                   pre, inserts, resolved_from, lookups, writes, after,
                   log, returned, concurrent>>

\* lines 139, 145-147: client.open raises another exception
OpenFails ==
    /\ tpc = "received"
    /\ env_ok
    /\ Truthy(SheetNameOf(request))
    /\ opened' = SheetNameOf(request)
    /\ response' = Json(500, "Failed to update sheet")
    /\ tpc' = "responded"
    /\ UNCHANGED <<env_ok, spreadsheets, request>>
    /\ UNCHANGED <<store, batch_size, runs, pc, data, row_indices, i, j, updated_data,
                   pre, inserts, resolved_from, lookups, writes, after,
                   log, returned, concurrent>>

\* line 141: update_google_sheet has returned
RespondSuccess ==
    /\ tpc = "running"
    /\ pc[1] = "done"
    /\ response' = Json(200, "Sheet updated successfully")
    /\ tpc' = "responded"
    /\ UNCHANGED <<env_ok, spreadsheets, request, opened>>
    /\ UNCHANGED <<store, batch_size, runs, pc, data, row_indices, i, j, updated_data,
                   pre, inserts, resolved_from, lookups, writes, after,
                   log, returned, concurrent>>

\* lines 145-147: update_google_sheet has raised
RespondFailure ==
    /\ tpc = "running"
    /\ pc[1] = "raised"
    /\ response' = Json(500, "Failed to update sheet")
    /\ tpc' = "responded"
    /\ UNCHANGED <<env_ok, spreadsheets, request, opened>>
    /\ UNCHANGED <<store, batch_size, runs, pc, data, row_indices, i, j, updated_data,
                   pre, inserts, resolved_from, lookups, writes, after,
                   log, returned, concurrent>>

\* a pass that waits for the pass before it, whatever started it
GetAllValues_Serialised(p) ==
    /\ pc[p] = "start"
    /\ p <= runs
    /\ IF p = 1 THEN TRUE ELSE pc[p - 1] \in {"done", "raised"}
    /\ data' = [data EXCEPT ![p] = store]
    /\ pc' = [pc EXCEPT ![p] = "normalize"]
    /\ UNCHANGED <<web, concurrent, log, returned>>
    /\ UNCHANGED <<store, batch_size, runs, row_indices, i, j, updated_data,
                   pre, inserts, resolved_from, lookups, writes, after>>

\* line 69: data = sheet.get_all_values()
GetAllValues(p) ==
    /\ pc[p] = "start"
    /\ p <= runs
    /\ IF p = 1 \/ concurrent THEN TRUE ELSE pc[p - 1] \in {"done", "raised"}
    /\ data' = [data EXCEPT ![p] = store]
    /\ pc' = [pc EXCEPT ![p] = "normalize"]
    /\ UNCHANGED <<web, concurrent, log, returned>>
    /\ UNCHANGED <<store, batch_size, runs, row_indices, i, j, updated_data,
                   pre, inserts, resolved_from, lookups, writes, after>>

\* lines 70-74 on a worksheet without any row: get_all_values returns [] and
\* data[0] raises IndexError, or (newer gspread) it returns [[]], the header
\* is inserted and row[1] of the empty row raises IndexError at line 74
EmptySheet(p) ==
    /\ pc[p] = "normalize"
    /\ Len(data[p]) = 0
    /\ \/ /\ store' = store
          /\ inserts' = inserts
       \/ /\ store' = InsertRow(store, headers)
          /\ inserts' = [inserts EXCEPT ![p] = @ + 1]
    /\ pc' = [pc EXCEPT ![p] = "raised"]
    /\ after' = [after EXCEPT ![p] = store']
    /\ UNCHANGED <<web, concurrent, log, returned>>
    /\ UNCHANGED <<batch_size, runs, data, row_indices, i, j, updated_data,
                   pre, resolved_from, lookups, writes>>

\* the header inserted in the worksheet but not in the snapshot
InsertHeader_StoreOnly(p) ==
    /\ pc[p] = "normalize"
    /\ Len(data[p]) > 0
    /\ data[p][1] # headers
    /\ store' = InsertRow(store, headers)
    /\ inserts' = [inserts EXCEPT ![p] = @ + 1]
    /\ pre' = [pre EXCEPT ![p] = store']
    /\ pc' = [pc EXCEPT ![p] = "scan"]
    /\ UNCHANGED <<web, concurrent, log, returned>>
    /\ UNCHANGED <<batch_size, runs, data, row_indices, i, j, updated_data,
                   resolved_from, lookups, writes, after>>

\* lines 70-72, data[0] != headers
InsertHeader(p) ==
    /\ pc[p] = "normalize"
    /\ Len(data[p]) > 0
    /\ data[p][1] # headers
    /\ store' = InsertRow(store, headers)
    /\ inserts' = [inserts EXCEPT ![p] = @ + 1]
    /\ data' = [data EXCEPT ![p] = <<headers>> \o data[p]]
    /\ pre' = [pre EXCEPT ![p] = store']
    /\ pc' = [pc EXCEPT ![p] = "scan"]
    /\ UNCHANGED <<web, concurrent, log, returned>>
    /\ UNCHANGED <<batch_size, runs, row_indices, i, j, updated_data,
                   resolved_from, lookups, writes, after>>

\* line 70, data[0] == headers
HeaderPresent(p) ==
    /\ pc[p] = "normalize"
    /\ Len(data[p]) > 0
    /\ data[p][1] = headers
    /\ pre' = [pre EXCEPT ![p] = store]
    /\ pc' = [pc EXCEPT ![p] = "scan"]
    /\ UNCHANGED <<web, concurrent, log, returned>>
    /\ UNCHANGED <<store, batch_size, runs, data, row_indices, i, j, updated_data,
                   inserts, resolved_from, lookups, writes, after>>

\* lines 74-76
Scan(p) ==
    /\ pc[p] = "scan"
    /\ row_indices' = [row_indices EXCEPT ![p] = ScanMissing(data[p])]
    /\ i' = [i EXCEPT ![p] = 0]
    /\ pc' = [pc EXCEPT ![p] = "loop"]
    /\ log' = [log EXCEPT ![p] = Append(@, FoundRowsRecord(Len(ScanMissing(data[p]))))]
    /\ UNCHANGED <<web, concurrent, returned>>
    /\ UNCHANGED <<store, batch_size, runs, data, j, updated_data,
                   pre, inserts, resolved_from, lookups, writes, after>>

\* lines 78-82: the next value of range(0, total_rows, batch_size)
NextBatch(p) ==
    /\ pc[p] = "loop"
    /\ RangeHas(i[p], total_rows(p), batch_size)
    /\ j' = [j EXCEPT ![p] = 0]
    /\ updated_data' = [updated_data EXCEPT ![p] = <<>>]
    /\ resolved_from' = [resolved_from EXCEPT ![p] = <<>>]
    /\ pc' = [pc EXCEPT ![p] = "row"]
    /\ UNCHANGED <<web, concurrent, log, returned>>
    /\ UNCHANGED <<store, batch_size, runs, data, row_indices, i,
                   pre, inserts, lookups, writes, after>>

\* the row loop without the except clauses: a lookup that raises ends the pass
Resolve_AbortOnError(p) ==
    /\ pc[p] = "row"
    /\ j[p] < Len(batch_data(p))
    /\ LET row == batch_data(p)[j[p] + 1]
           index == batch_indices(p)[j[p] + 1]
           raised == NeedsLookup(row) /\ places(row[1]).raises # "None"
       IN  /\ updated_data' = [updated_data EXCEPT ![p] =
                                 IF raised THEN @ ELSE Append(@, ResolveRow(row))]
           /\ resolved_from' = [resolved_from EXCEPT ![p] =
                                  IF raised THEN @ ELSE Append(@, index)]
           /\ lookups' = [lookups EXCEPT ![p] =
                            IF NeedsLookup(row) THEN Append(@, index) ELSE @]
           /\ pc' = [pc EXCEPT ![p] =
                       IF raised THEN "raised"
                       ELSE IF j[p] + 1 = Len(batch_data(p)) THEN "update" ELSE "row"]
           /\ after' = [after EXCEPT ![p] = IF raised THEN store ELSE @]
    /\ j' = [j EXCEPT ![p] = @ + 1]
    /\ log' = [log EXCEPT ![p] = @ \o ErrorRecords(batch_data(p)[j[p] + 1])]
    /\ UNCHANGED <<web, concurrent, returned>>
    /\ UNCHANGED <<store, batch_size, runs, data, row_indices, i,
                   pre, inserts, writes>>

\* the row loop putting each entry in front of updated_data
Resolve_Prepend(p) ==
    /\ pc[p] = "row"
    /\ j[p] < Len(batch_data(p))
    /\ LET row == batch_data(p)[j[p] + 1]
           index == batch_indices(p)[j[p] + 1]
       IN  /\ updated_data' = [updated_data EXCEPT ![p] = <<ResolveRow(row)>> \o @]
           /\ resolved_from' = [resolved_from EXCEPT ![p] = <<index>> \o @]
           /\ lookups' = [lookups EXCEPT ![p] =
                            IF NeedsLookup(row) THEN Append(@, index) ELSE @]
    /\ j' = [j EXCEPT ![p] = @ + 1]
    /\ pc' = [pc EXCEPT ![p] = IF j[p] + 1 = Len(batch_data(p)) THEN "update" ELSE "row"]
    /\ log' = [log EXCEPT ![p] = @ \o ErrorRecords(batch_data(p)[j[p] + 1])]
    /\ UNCHANGED <<web, concurrent, returned>>
    /\ UNCHANGED <<store, batch_size, runs, data, row_indices, i,
                   pre, inserts, writes, after>>

\* the row loop left for the write after its first row
Resolve_WriteEarly(p) ==
    /\ pc[p] = "row"
    /\ j[p] < Len(batch_data(p))
    /\ LET row == batch_data(p)[j[p] + 1]
           index == batch_indices(p)[j[p] + 1]
       IN  /\ updated_data' = [updated_data EXCEPT ![p] = Append(@, ResolveRow(row))]
           /\ resolved_from' = [resolved_from EXCEPT ![p] = Append(@, index)]
           /\ lookups' = [lookups EXCEPT ![p] =
                            IF NeedsLookup(row) THEN Append(@, index) ELSE @]
    /\ j' = [j EXCEPT ![p] = @ + 1]
    /\ pc' = [pc EXCEPT ![p] = "update"]
    /\ log' = [log EXCEPT ![p] = @ \o ErrorRecords(batch_data(p)[j[p] + 1])]
    /\ UNCHANGED <<web, concurrent, returned>>
    /\ UNCHANGED <<store, batch_size, runs, data, row_indices, i,
                   pre, inserts, writes, after>>

\* lines 83-121: one iteration of "for row in batch_data"; every branch of
\* the try statement appends one entry and the loop goes on
Resolve(p) ==
    /\ pc[p] = "row"
    /\ j[p] < Len(batch_data(p))
    /\ LET row == batch_data(p)[j[p] + 1]
           index == batch_indices(p)[j[p] + 1]
       IN  /\ updated_data' = [updated_data EXCEPT ![p] = Append(@, ResolveRow(row))]
           /\ resolved_from' = [resolved_from EXCEPT ![p] = Append(@, index)]
           /\ lookups' = [lookups EXCEPT ![p] =
                            IF NeedsLookup(row) THEN Append(@, index) ELSE @]
    /\ j' = [j EXCEPT ![p] = @ + 1]
    /\ pc' = [pc EXCEPT ![p] = IF j[p] + 1 = Len(batch_data(p)) THEN "update" ELSE "row"]
    /\ log' = [log EXCEPT ![p] = @ \o ErrorRecords(batch_data(p)[j[p] + 1])]
    /\ UNCHANGED <<web, concurrent, returned>>
    /\ UNCHANGED <<store, batch_size, runs, data, row_indices, i,
                   pre, inserts, writes, after>>

\* lines 123-125
Update(p) ==
    /\ pc[p] = "update"
    /\ store' = SheetUpdate(store, start_row(p), end_row(p), updated_data[p])
    /\ writes' = [writes EXCEPT ![p] =
                    Append(@, [start_row |-> start_row(p), end_row |-> end_row(p),
                               values |-> updated_data[p],
                               batch_indices |-> batch_indices(p),
                               raised |-> FALSE])]
    /\ i' = [i EXCEPT ![p] = @ + batch_size]
    /\ pc' = [pc EXCEPT ![p] = "loop"]
    /\ UNCHANGED <<web, concurrent, log, returned>>
    /\ UNCHANGED <<batch_size, runs, data, row_indices, j, updated_data,
                   pre, inserts, resolved_from, lookups, after>>

\* line 78, range exhausted (at once when the step is negative): the function
\* ends without a return statement
Return(p) ==
    /\ pc[p] = "loop"
    /\ RangeDone(i[p], total_rows(p), batch_size)
    /\ pc' = [pc EXCEPT ![p] = "done"]
    /\ after' = [after EXCEPT ![p] = store]
    /\ returned' = [returned EXCEPT ![p] = [value |-> "None"]]
    /\ UNCHANGED <<web, concurrent, log>>
    /\ UNCHANGED <<store, batch_size, runs, data, row_indices, i, j, updated_data,
                   pre, inserts, resolved_from, lookups, writes>>

\* line 78 with batch_size = 0: range() raises ValueError
RangeRaises(p) ==
    /\ pc[p] = "loop"
    /\ batch_size = 0
    /\ pc' = [pc EXCEPT ![p] = "raised"]
    /\ after' = [after EXCEPT ![p] = store]
    /\ UNCHANGED <<web, concurrent, log, returned>>
    /\ UNCHANGED <<store, batch_size, runs, data, row_indices, i, j, updated_data,
                   pre, inserts, resolved_from, lookups, writes>>

\* line 69, sheet.get_all_values() raising (transport, quota, permission)
GetAllValuesFails(p) ==
    /\ pc[p] = "start"
    /\ p <= runs
    /\ IF p = 1 \/ concurrent THEN TRUE ELSE pc[p - 1] \in {"done", "raised"}
    /\ pc' = [pc EXCEPT ![p] = "raised"]
    /\ after' = [after EXCEPT ![p] = store]
    /\ UNCHANGED <<web, concurrent, log, returned>>
    /\ UNCHANGED <<store, batch_size, runs, data, row_indices, i, j, updated_data,
                   pre, inserts, resolved_from, lookups, writes>>

\* line 71, sheet.insert_row raising: nothing is inserted
InsertRowFails(p) ==
    /\ pc[p] = "normalize"
    /\ Len(data[p]) > 0
    /\ data[p][1] # headers
    /\ pc' = [pc EXCEPT ![p] = "raised"]
    /\ after' = [after EXCEPT ![p] = store]
    /\ UNCHANGED <<web, concurrent, log, returned>>
    /\ UNCHANGED <<store, batch_size, runs, data, row_indices, i, j, updated_data,
                   pre, inserts, resolved_from, lookups, writes>>

\* a failing sheet.update caught and the loop going on with the next batch
UpdateFails_Swallowed(p) ==
    /\ pc[p] = "update"
    /\ writes' = [writes EXCEPT ![p] =
                    Append(@, [start_row |-> start_row(p), end_row |-> end_row(p),
                               values |-> updated_data[p],
                               batch_indices |-> batch_indices(p),
                               raised |-> TRUE])]
    /\ i' = [i EXCEPT ![p] = @ + batch_size]
    /\ pc' = [pc EXCEPT ![p] = "loop"]
    /\ UNCHANGED <<web, concurrent, log, returned>>
    /\ UNCHANGED <<store, batch_size, runs, data, row_indices, j, updated_data,
                   pre, inserts, resolved_from, lookups, after>>

\* line 125, sheet.update raising: nothing is written, nothing in
\* update_google_sheet catches the exception
UpdateFails(p) ==
    /\ pc[p] = "update"
    /\ writes' = [writes EXCEPT ![p] =
                    Append(@, [start_row |-> start_row(p), end_row |-> end_row(p),
                               values |-> updated_data[p],
                               batch_indices |-> batch_indices(p),
                               raised |-> TRUE])]
    /\ pc' = [pc EXCEPT ![p] = "raised"]
    /\ after' = [after EXCEPT ![p] = store]
    /\ UNCHANGED <<web, concurrent, log, returned>>
    /\ UNCHANGED <<store, batch_size, runs, data, row_indices, i, j, updated_data,
                   pre, inserts, resolved_from, lookups>>

Next ==
    \E p \in Passes :
        \/ GetAllValues(p)
        \/ EmptySheet(p)
        \/ InsertHeader(p)
        \/ HeaderPresent(p)
        \/ Scan(p)
        \/ NextBatch(p)
        \/ Resolve(p)
        \/ Update(p)
        \/ Return(p)

Spec == Init /\ [][Next]_vars

SpecTwice == InitTwice /\ [][Next]_vars

\* the pass with store calls that may fail
NextIO ==
    \/ Next
    \/ \E p \in Passes :
        \/ GetAllValuesFails(p)
        \/ InsertRowFails(p)
        \/ UpdateFails(p)

SpecIO == Init /\ [][NextIO]_vars

SpecConc == InitConc /\ [][Next]_vars

\* a request to POST /update
NextTrigger ==
    \/ InitializeClientsRaises
    \/ RejectBlank
    \/ OpenSheet
    \/ SpreadsheetNotFound
    \/ OpenFails
    \/ RespondSuccess
    \/ RespondFailure
    \/ NextIO

SpecTrigger == InitTrigger /\ [][NextTrigger]_vars

\* the pass called with any batch_size
NextAnyBatch ==
    \/ Next
    \/ \E p \in Passes : RangeRaises(p)

SpecAnyBatch == InitAnyBatch /\ [][NextAnyBatch]_vars

-----------------------------------------------------------------------------
(* Properties *)

Elems(seq) == { seq[x] : x \in 1..Len(seq) }

Incomplete(row) == row[2] = "" \/ row[3] = ""

\* the lookup for the record in row finds a place / finds none or raises
Matched(row) == places(row[1]).raises = "None" /\ Len(places(row[1]).results) > 0

ExpectedAddress(row) ==
    LET found == places(row[1]).results[1].formatted_address
    IN  IF found = "None" THEN "No address found" ELSE found

ExpectedUrl(row) ==
    LET found == places(row[1]).results[1].place_id
    IN  IF found = "None" THEN "No Google Maps URL found"
        ELSE "https://www.google.com/maps/place/?q=place_id:" \o found

CeilDiv(n, d) == (n + d - 1) \div d

RECURSIVE Flatten(_)
Flatten(seqs) == IF Len(seqs) = 0 THEN <<>> ELSE Head(seqs) \o Flatten(Tail(seqs))

WrittenBatches(p) == [w \in 1..Len(writes[p]) |-> writes[p][w].batch_indices]

\* C1. Non-destructiveness: every field of every record that is non-empty
\* before the pass holds the same value at the record's position after it.
C1_NonDestructive ==
    \A p \in Passes :
        pc[p] = "done" =>
            \A r \in 1..Len(pre[p]) : \A c \in 1..Len(pre[p][r]) :
                pre[p][r][c] # "" =>
                    r <= Len(after[p]) /\ after[p][r][c] = pre[p][r][c]

\* C2. Idempotence: the worksheet after a second pass in succession equals the
\* worksheet after the first pass.
C2_Idempotent ==
    (pc[1] = "done" /\ pc[2] = "done") => after[2] = after[1]

\* C3. Enrichment lands on the resolved record: after the pass every work item
\* whose lookup found a place has, in its own row, the formatted address and
\* the deep link of the place (or the two fallback texts).
C3_EnrichmentLands ==
    \A p \in Passes :
        pc[p] = "done" =>
            \A k \in 1..Len(row_indices[p]) :
                LET index == row_indices[p][k]
                    row == data[p][index + 1]
                IN  Matched(row) =>
                        /\ after[p][index + 1][2] = ExpectedAddress(row)
                        /\ after[p][index + 1][3] = ExpectedUrl(row)

\* C4. Batch isolation: a lookup that raises does not make the pass raise;
\* every work item of every batch is still looked up, in order, and every
\* batch is still written.
C4_BatchIsolation ==
    \A p \in Passes :
        /\ pc[p] = "raised" => Len(data[p]) = 0
        /\ pc[p] = "update" =>
              \A k \in 1..Len(batch_indices(p)) : batch_indices(p)[k] \in Elems(lookups[p])
        /\ pc[p] = "done" =>
              /\ lookups[p] = row_indices[p]
              /\ \A k \in 1..Len(row_indices[p]) :
                    \E w \in 1..Len(writes[p]) :
                        row_indices[p][k] \in Elems(writes[p][w].batch_indices)

C4_Witness ==
    \E p \in Passes :
        /\ pc[p] = "done"
        /\ \E w \in 1..Len(writes[p]) :
              /\ w < Len(writes[p])
              /\ Len(writes[p][w].batch_indices) >= 2
              /\ \E k \in 1..Len(writes[p][w].batch_indices) :
                    places(data[p][writes[p][w].batch_indices[k] + 1][1]).raises # "None"

\* C5. Write shape: every write targets the rows from the first to the last
\* position of its batch and carries one row of values per row of that range;
\* one write is issued per batch.
C5_WriteShape ==
    \A p \in Passes :
        /\ \A w \in 1..Len(writes[p]) :
              LET u == writes[p][w]
              IN  /\ u.start_row = u.batch_indices[1] + 1
                  /\ u.end_row = u.batch_indices[Len(u.batch_indices)] + 1
                  /\ Len(u.values) = u.end_row - u.start_row + 1
        /\ pc[p] = "done" => Len(writes[p]) = CeilDiv(Len(row_indices[p]), batch_size)

\* C6. Pass-through: for a work item whose lookup finds no place or raises,
\* the triple contributed is the record's current (address, url, date), the
\* record in the worksheet after the pass is as before the pass, and the
\* record is a work item of the next pass again.
C6_PassThrough ==
    \A p \in Passes :
        pc[p] = "done" =>
            \A w \in 1..Len(writes[p]) :
                \A k \in 1..Len(writes[p][w].batch_indices) :
                    LET index == writes[p][w].batch_indices[k]
                        row == pre[p][index + 1]
                    IN  ~Matched(row) =>
                            /\ writes[p][w].values[k] = <<row[2], row[3], row[4]>>
                            /\ after[p][index + 1] = row
                            /\ index \in Elems(ScanMissing(after[p]))

\* C7. Header invariant: row 1 is the header after a pass that returns; a
\* missing header is inserted once, at row 1, moving every record down by one
\* row unchanged; from then on the snapshot and the worksheet hold the same
\* records at the same rows.
C7_HeaderInvariant ==
    /\ [](\A p \in Passes :
            /\ pc[p] = "done" => after[p][1] = headers /\ store[1] = headers
            /\ inserts[p] <= 1
            /\ pc[p] \in {"scan", "loop", "row", "update", "done"} =>
                  /\ Len(data[p]) = Len(store)
                  /\ data[p][1] = store[1]
                  /\ \A r \in 1..Len(store) :
                        data[p][r][1] = store[r][1] /\ data[p][r][5] = store[r][5])
    /\ [][\A p \in Passes :
            (pc[p] = "normalize" /\ pc'[p] = "scan") =>
                IF store[1] = headers
                THEN store' = store /\ inserts'[p] = inserts[p] /\ data'[p] = store
                ELSE /\ inserts'[p] = inserts[p] + 1
                     /\ Len(store') = Len(store) + 1
                     /\ store'[1] = headers
                     /\ \A r \in 1..Len(store) : store'[r + 1] = store[r]
                     /\ data'[p] = store']_vars

C7_Witness ==
    \E p \in Passes :
        /\ pc[p] = "done"
        /\ inserts[p] = 1
        /\ Len(after[p]) >= 3
        /\ Len(lookups[p]) >= 1
        /\ Len(writes[p]) >= 1

\* C8. Completeness detection: the work items are exactly the rows below the
\* header whose address or url is empty, in ascending order; a record with
\* both filled is no work item and is never looked up.
C8_CompletenessDetection ==
    \A p \in Passes :
        pc[p] \in {"loop", "row", "update", "done"} =>
            /\ \A k \in 1..Len(row_indices[p]) : row_indices[p][k] \in 1..(Len(data[p]) - 1)
            /\ \A k, l \in 1..Len(row_indices[p]) :
                  k < l => row_indices[p][k] < row_indices[p][l]
            /\ \A x \in 1..(Len(data[p]) - 1) :
                  x \in Elems(row_indices[p]) <=> Incomplete(data[p][x + 1])
            /\ \A k \in 1..Len(lookups[p]) : Incomplete(data[p][lookups[p][k] + 1])

C8_Witness ==
    \E p \in Passes :
        /\ pc[p] = "done"
        /\ Len(lookups[p]) >= 1
        /\ \E r \in 2..Len(data[p]) :
              /\ ~Incomplete(data[p][r])
              /\ data[p][r][4] = ""
              /\ (r - 1) \notin Elems(lookups[p])
        /\ \E r \in 2..Len(data[p]) : ~Incomplete(data[p][r]) /\ data[p][r][5] = ""
        /\ \E r \in 2..Len(data[p]) : Incomplete(data[p][r]) /\ data[p][r][2] # ""
        /\ \E r \in 2..Len(data[p]) : Incomplete(data[p][r]) /\ data[p][r][3] # ""

\* C9. Partitioning: the batches are contiguous slices of the work-item
\* sequence whose concatenation is the sequence; all have batch_size items
\* but the last, which has 1..batch_size; there are ceil(n / batch_size).
C9_Partitioning ==
    \A p \in Passes :
        /\ pc[p] \in {"row", "update"} =>
              /\ Len(batch_indices(p)) \in 1..batch_size
              /\ Flatten(WrittenBatches(p)) \o batch_indices(p)
                    = SubSeq(row_indices[p], 1, Len(Flatten(WrittenBatches(p)))
                                                  + Len(batch_indices(p)))
        /\ pc[p] = "done" =>
              /\ Len(writes[p]) = CeilDiv(Len(row_indices[p]), batch_size)
              /\ Flatten(WrittenBatches(p)) = row_indices[p]
              /\ \A w \in 1..Len(writes[p]) :
                    IF w < Len(writes[p])
                    THEN Len(writes[p][w].batch_indices) = batch_size
                    ELSE Len(writes[p][w].batch_indices) \in 1..batch_size

C9_Witness ==
    \E p \in Passes :
        /\ pc[p] = "done"
        /\ batch_size >= 2
        /\ Len(writes[p]) >= 2
        /\ Len(writes[p][Len(writes[p])].batch_indices) < batch_size

\* C10. Order preservation: when a batch is written, updated_data has one
\* entry per position of the batch whatever the lookups gave, and its k-th
\* entry is the one resolved from the record at the k-th position.
C10_OrderPreservation ==
    \A p \in Passes :
        /\ pc[p] = "row" => Len(updated_data[p]) = j[p]
        /\ pc[p] = "update" =>
              /\ Len(updated_data[p]) = Len(batch_indices(p))
              /\ resolved_from[p] = batch_indices(p)
              /\ \A k, l \in 1..Len(batch_indices(p)) :
                    k < l => batch_indices(p)[k] < batch_indices(p)[l]
              /\ \A k \in 1..Len(batch_indices(p)) :
                    LET row == data[p][batch_indices(p)[k] + 1]
                    IN  updated_data[p][k] =
                            IF Matched(row)
                            THEN <<ExpectedAddress(row), ExpectedUrl(row),
                                   IF row[4] = "" THEN Today ELSE row[4]>>
                            ELSE <<row[2], row[3], row[4]>>

C10_Witness ==
    \E p \in Passes :
        /\ pc[p] = "update"
        /\ Len(batch_indices(p)) >= 3
        /\ \E k \in 1..Len(batch_indices(p)) :
              places(data[p][batch_indices(p)[k] + 1][1]).raises # "None"
        /\ \E k \in 1..Len(batch_indices(p)) : Matched(data[p][batch_indices(p)[k] + 1])
        /\ \E k \in 1..Len(batch_indices(p)) :
              /\ places(data[p][batch_indices(p)[k] + 1][1]).raises = "None"
              /\ ~Matched(data[p][batch_indices(p)[k] + 1])

RECURSIVE ApplyWrites(_, _)
\* the worksheet after the writes of the sequence ws that did not raise
ApplyWrites(sheet, ws) ==
    IF Len(ws) = 0 THEN sheet
    ELSE ApplyWrites(IF Head(ws).raised THEN sheet
                     ELSE SheetUpdate(sheet, Head(ws).start_row, Head(ws).end_row,
                                      Head(ws).values),
                     Tail(ws))

\* C11. A failing store write aborts the pass: the exception leaves
\* update_google_sheet, the write is not issued again, no lookup and no write
\* follows for a later batch, and the earlier writes stay in the worksheet.
C11_WriteFailureAborts ==
    /\ [](\A p \in Passes :
            /\ \A w \in 1..Len(writes[p]) :
                  writes[p][w].raised =>
                      /\ w = Len(writes[p])
                      /\ pc[p] = "raised"
                      /\ returned[p].value = "not returned"
                      /\ lookups[p] = Flatten(WrittenBatches(p))
                      /\ i[p] = (w - 1) * batch_size
                      /\ store = ApplyWrites(pre[p], writes[p])
                      /\ after[p] = store)
    /\ [][\A p \in Passes :
            pc[p] = "raised" =>
                /\ pc'[p] = "raised"
                /\ writes'[p] = writes[p]
                /\ lookups'[p] = lookups[p]
                /\ store' = store]_vars

C11_Witness ==
    \E p \in Passes :
        /\ pc[p] = "raised"
        /\ Len(writes[p]) >= 2
        /\ writes[p][Len(writes[p])].raised
        /\ store # pre[p]
        /\ Len(lookups[p]) < Len(row_indices[p])

\* C12. An invalid batch size is rejected before the pass: with batch_size
\* <= 0 the call ends in an error, and nothing is inserted, written or looked
\* up before it does (stated for the passes that have read a worksheet with
\* rows; a worksheet without rows makes the pass raise whatever batch_size is).
C12_InvalidBatchRejected ==
    batch_size <= 0 =>
        \A p \in Passes :
            Len(data[p]) > 0 =>
                /\ pc[p] # "done"
                /\ inserts[p] = 0
                /\ lookups[p] = <<>>
                /\ writes[p] = <<>>

\* C13. Default table name of the request: with no sheet_name field, or with
\* an empty sheet_name, the pass runs against "Maine Restaurants".
C13_DefaultWhenAbsentOrBlank ==
    (/\ tpc \in {"running", "responded"}
     /\ env_ok
     /\ ~request.present \/ request.sheet_name = "")
        => opened = "Maine Restaurants"

\* C13 as amended. With no sheet_name field the name opened is "Maine
\* Restaurants"; with an empty (or null) sheet_name the answer is 400 "Sheet
\* name is required", no spreadsheet is opened and no pass is run.
C13_DefaultWhenAbsent ==
    (tpc \in {"running", "responded"} /\ env_ok) =>
        /\ ~request.present => opened = "Maine Restaurants"
        /\ (request.present /\ request.sheet_name \in {"", "None"}) =>
              /\ opened = "None"
              /\ response.status = 400
              /\ response.body = "Sheet name is required"
              /\ pc[1] = "wait"

C13_Witness ==
    /\ tpc = "responded"
    /\ ~request.present
    /\ opened = "Maine Restaurants"
    /\ response.status = 200
    /\ Len(lookups[1]) >= 1

\* C14. Outcome mapping: every request ends in success when the pass has
\* returned, in not-found when the spreadsheet does not exist (and then no
\* pass was called), in the generic failure for every other failure; no
\* exception leaves the handler.
C14_OutcomeMapping ==
    tpc = "responded" =>
        /\ response.kind = "json"
        /\ \/ response.status = 200 /\ pc[1] = "done"
           \/ response.status = 404 /\ opened \notin spreadsheets /\ pc[1] = "wait"
           \/ response.status = 500

\* the lookups of pass p that raised, and the error records it logged
RaisedLookups(p) ==
    SelectSeq(lookups[p], LAMBDA index : places(data[p][index + 1][1]).raises # "None")

ErrorLog(p) == SelectSeq(log[p], LAMBDA rec : rec.level = "error")

Overlap(u, v) == u.start_row <= v.end_row /\ v.start_row <= u.end_row

\* C16. Concurrent passes are unsafe: nothing serialises two passes on one
\* worksheet (a pass that has not started can start whatever the other is
\* doing), and two passes that read the same rows scan the same work items
\* and write the same row ranges.
C16_NotSerialised ==
    /\ \A p \in 1..runs : pc[p] = "start" => ENABLED GetAllValues(p)
    /\ (/\ pc[1] \in {"loop", "row", "update", "done"}
        /\ pc[2] \in {"loop", "row", "update", "done"}
        /\ data[1] = data[2])
          => /\ row_indices[1] = row_indices[2]
             /\ \A w \in 1..Min(Len(writes[1]), Len(writes[2])) :
                   /\ writes[1][w].start_row = writes[2][w].start_row
                   /\ writes[1][w].end_row = writes[2][w].end_row

\* both passes in flight, the same incomplete record scanned and looked up by
\* both, and overlapping range writes issued by both
C16_Witness ==
    /\ pc[1] \in {"loop", "row", "update"}
    /\ pc[2] \in {"loop", "row", "update"}
    /\ data[1] = data[2]
    /\ \E index \in Elems(row_indices[1]) \cap Elems(row_indices[2]) :
          /\ Incomplete(data[1][index + 1])
          /\ index \in Elems(lookups[1]) \cap Elems(lookups[2])
    /\ \E w1 \in 1..Len(writes[1]) : \E w2 \in 1..Len(writes[2]) :
          Overlap(writes[1][w1], writes[2][w2])

IsPrefix(a, b) == Len(a) <= Len(b) /\ a = SubSeq(b, 1, Len(a))

\* C17. Sequencing within a pass: the read and the header insert precede
\* every lookup; lookups are issued one at a time in ascending position
\* order; the lookups of a batch are complete before its write, the write of
\* a batch is complete before the first lookup of the next batch; writes are
\* issued in ascending batch order.
C17_Sequencing ==
    /\ [](\A p \in Passes :
            /\ pc[p] \in {"start", "normalize", "scan"} =>
                  lookups[p] = <<>> /\ writes[p] = <<>>
            /\ pc[p] \in {"loop", "row", "update", "done"} =>
                  /\ IsPrefix(lookups[p], row_indices[p])
                  /\ IsPrefix(Flatten(WrittenBatches(p)), lookups[p])
                  /\ \A w \in 1..Len(writes[p]) :
                        writes[p][w].batch_indices =
                            BatchSlice(row_indices[p], (w - 1) * batch_size, batch_size))
    /\ [][\A p \in Passes :
            /\ (data'[p] # data[p] \/ inserts'[p] # inserts[p]) =>
                  lookups'[p] = <<>> /\ writes'[p] = <<>>
            /\ lookups'[p] # lookups[p] =>
                  /\ Len(lookups'[p]) = Len(lookups[p]) + 1
                  /\ IsPrefix(lookups[p], lookups'[p])
                  /\ writes'[p] = writes[p]
                  /\ Len(lookups[p]) \div batch_size = Len(writes[p])
            /\ writes'[p] # writes[p] =>
                  /\ Len(writes'[p]) = Len(writes[p]) + 1
                  /\ IsPrefix(writes[p], writes'[p])
                  /\ lookups'[p] = lookups[p]
                  /\ lookups[p] = Flatten(WrittenBatches(p)')]_vars

C17_Witness ==
    \E p \in Passes :
        /\ pc[p] = "done"
        /\ inserts[p] = 1
        /\ batch_size >= 2
        /\ Len(writes[p]) >= 2
        /\ Len(writes[p][2].batch_indices) >= 2

\* C18. Date stamping: the date of the triple resolved for a matched work
\* item is the current date when the record had none and the record's date
\* otherwise; for a work item without match or with a failed lookup the date
\* of the triple is the record's, never a stamp.
C18_DateStamping ==
    \A p \in Passes :
        \A w \in 1..Len(writes[p]) :
            \A k \in 1..Len(writes[p][w].batch_indices) :
                LET row == data[p][writes[p][w].batch_indices[k] + 1]
                    date == writes[p][w].values[k][3]
                IN  /\ (Matched(row) /\ row[4] = "") => date = "2026-11-06"
                    /\ (Matched(row) /\ row[4] # "") => date = row[4]
                    /\ ~Matched(row) => date = row[4]

C18_Witness ==
    \E p \in Passes :
        /\ pc[p] = "done"
        /\ \E k \in 1..Len(row_indices[p]) :
              LET row == data[p][row_indices[p][k] + 1] IN Matched(row) /\ row[4] = ""
        /\ \E k \in 1..Len(row_indices[p]) :
              LET row == data[p][row_indices[p][k] + 1] IN Matched(row) /\ row[4] # ""
        /\ \E k \in 1..Len(row_indices[p]) :
              LET row == data[p][row_indices[p][k] + 1] IN ~Matched(row) /\ row[4] = ""

\* C19. Frame of a pass: the worksheet changes only by one header insert at
\* row 1 and by writes to the columns B..D of existing rows; names and notes
\* are after the pass what they were before it, and no record is deleted,
\* duplicated or moved relative to the others.
C19_Frame ==
    /\ [](\A p \in Passes :
            /\ inserts[p] <= 1
            /\ pc[p] \in {"scan", "loop", "row", "update", "done"} =>
                  /\ Len(store) = Len(pre[p])
                  /\ \A r \in 1..Len(store) :
                        store[r][1] = pre[p][r][1] /\ store[r][5] = pre[p][r][5])
    /\ [][\/ store' = store
          \/ /\ \E p \in Passes : inserts'[p] = inserts[p] + 1
             /\ store' = <<headers>> \o store
          \/ /\ \E p \in Passes : Len(writes'[p]) = Len(writes[p]) + 1
             /\ inserts' = inserts
             /\ Len(store') = Len(store)
             /\ \A r \in 1..Len(store) :
                   /\ Len(store'[r]) = Len(store[r])
                   /\ store'[r][1] = store[r][1]
                   /\ store'[r][5] = store[r][5]]_vars

C19_Witness ==
    \E p \in Passes :
        /\ pc[p] = "done"
        /\ inserts[p] = 1
        /\ Len(writes[p]) >= 2
        /\ store # pre[p]
        /\ \E r \in 2..Len(store) : store[r][5] = ""
        /\ \E r \in 2..Len(store) : store[r][5] # ""

\* C20. Write targets stay inside the data rows: every write has
\* 2 <= start_row <= end_row <= number of rows after header normalisation,
\* the header row is no work item and is not written; without work items
\* there is no lookup and no write.
C20_WriteTargets ==
    \A p \in Passes :
        /\ \A w \in 1..Len(writes[p]) :
              /\ 2 <= writes[p][w].start_row
              /\ writes[p][w].start_row <= writes[p][w].end_row
              /\ writes[p][w].end_row <= Len(pre[p])
        /\ pc[p] \in {"loop", "row", "update", "done"} =>
              /\ 0 \notin Elems(row_indices[p])
              /\ store[1] = headers
              /\ row_indices[p] = <<>> => lookups[p] = <<>> /\ writes[p] = <<>>

C20_Witness ==
    \E p \in Passes :
        /\ pc[p] = "done"
        /\ \E w \in 1..Len(writes[p]) :
              writes[p][w].start_row = 2 /\ writes[p][w].end_row = Len(pre[p])

====
